---------------------------- MODULE Spec2Model ----------------------------
(***************************************************************************)
(* Model of the two help-center theme widgets of this repository:          *)
(*                                                                         *)
(*   - the video library widget (src/unnamed/part_000): a readiness        *)
(*     barrier that counts player-ready callbacks, then waits for the      *)
(*     images of the document, then reveals the widget;                    *)
(*   - the article navigation widget                                       *)
(*     (src/assets/extension-article-navigation.js): filter, sort and      *)
(*     hierarchical merge of a collection, then previous/current/next.     *)
(*                                                                         *)
(* The browser is single threaded: every action below is one task (an      *)
(* event handler run to completion) or one promise reaction job.  Promise  *)
(* jobs run before the next task, so every task is guarded by an empty     *)
(* job queue.                                                              *)
(*                                                                         *)
(* The video widget is modelled with its default 'grid' layout, whose      *)
(* template holds no IMG element: the thumbnail loop of onPlayerReady      *)
(* (lines 223-228) then finds nothing to assign.                           *)
(***************************************************************************)
EXTENDS Integers, Sequences, FiniteSets, TLC

VARIABLES
  \* ---- video library widget and its page ----
  elements,                 \* the [data-element="video-library"] elements of the page
  optIds,                   \* options.ids of each element (a string: a sequence of characters)
  loaded,                   \* the window 'load' listener has run
  ids,                      \* this.ids
  hidden,                   \* the root element carries the class 'hidden'
  numberPlayersReady,       \* this.numberPlayersReady
  players,                  \* this.players has been assigned by createPlayers
  onYouTubeIframeAPIReady,  \* window.onYouTubeIframeAPIReady: the instance bound, 0 when unset
  apiReady,                 \* the embedding API has called window.onYouTubeIframeAPIReady
  imgState,                 \* every IMG of the document: "loading", "loaded" or "broken"
  barriers,                 \* the Promise.all promises created by onImagesLoaded
  jobs,                     \* the promise job queue: indexes of barriers whose reaction is queued
  readyEvents,              \* the 'videoLibrary:ready' events emitted on each root element
  signalled,                \* history: the players whose ready callback has been delivered
  signals                   \* history: the number of ready callbacks delivered so far

videoVars == <<elements, optIds, loaded, ids, hidden, numberPlayersReady, players,
               onYouTubeIframeAPIReady, apiReady, imgState, barriers, jobs,
               readyEvents, signalled, signals>>

VARIABLES
  \* ---- article navigation widget ----
  navPc,                    \* "new", "fetching", "rendered", "aborted" (no article id),
                            \* "threw" (TypeError in initialize), "failed" (fetch)
  navOptions,               \* this.options: collection, articleId, sortOrder, filter, sort
  navPage,                  \* the page: Util.isArticlePage() and Util.getPageId()
  collection,               \* the collection object in memory (options.collection or the REST document)
  passed,                   \* history: the collection as it was when render received it
  navData,                  \* the data record render hands to Util.renderTemplate
  navEvents,                \* the article lists carried by the 'articleNavigation:render' events
  navErrors,                \* console.error calls
  navRequests               \* Util.request calls

navVars == <<navPc, navOptions, navPage, collection, passed, navData, navEvents,
             navErrors, navRequests>>

vars == <<videoVars, navVars>>

----------------------------------------------------------------------------
(* Bounds of the model *)

\* longest options.ids string
MaxIdsLen == 3
\* IMG elements in the document
NumImages == 2
\* player-ready callbacks the embedding API delivers in one run
MaxSignals == 4

\* the widget elements a page may hold
Instances == {1, 2}
\* the characters of an options.ids string: an id character, a blank, the separator
IdChars == {"a", " ", ","}
Images == 1..NumImages
ImageStates == {"loading", "loaded", "broken"}

RECURSIVE StringsUpTo(_)
StringsUpTo(n) ==
  IF n = 0 THEN {<<>>}
  ELSE LET shorter == StringsUpTo(n - 1)
       IN shorter \cup {Append(s, c) : s \in {t \in shorter : Len(t) = n - 1}, c \in IdChars}

----------------------------------------------------------------------------
(* String helpers of initialize: String.prototype.split(',') and trim() *)

RECURSIVE SplitFrom(_, _, _)
SplitFrom(s, i, cur) ==
  IF i > Len(s) THEN <<cur>>
  ELSE IF s[i] = "," THEN <<cur>> \o SplitFrom(s, i + 1, <<>>)
  ELSE SplitFrom(s, i + 1, Append(cur, s[i]))

\* 'a,b'.split(',') = ['a','b'];  ''.split(',') = ['']
Split(s) == SplitFrom(s, 1, <<>>)

RECURSIVE TrimLeft(_)
TrimLeft(s) == IF s # <<>> /\ Head(s) = " " THEN TrimLeft(Tail(s)) ELSE s

RECURSIVE TrimRight(_)
TrimRight(s) ==
  IF s # <<>> /\ s[Len(s)] = " " THEN TrimRight(SubSeq(s, 1, Len(s) - 1)) ELSE s

Trim(s) == TrimRight(TrimLeft(s))

\* this.ids = options.ids.split(',').map(function(id) { return id.trim(); })
ParseIds(s) == [k \in 1..Len(Split(s)) |-> Trim(Split(s)[k])]

----------------------------------------------------------------------------
(* onImagesLoaded *)

\* the filter of onImagesLoaded: !img.naturalWidth || !img.complete
\* ("loaded": complete with a width; "broken": complete, width 0; "loading": not complete)
NeedsWait(st) == st # "loaded"

\* the images onImagesLoaded() waits on: el defaults to document, so every IMG counts
AwaitedImages == {img \in Images : NeedsWait(imgState[img])}

\* Promise.all(promises): fulfilled at once when the list is empty
NewBarrier(inst) ==
  [inst |-> inst,
   awaited |-> AwaitedImages,
   waiting |-> AwaitedImages,
   settled |-> {},
   state |-> IF AwaitedImages = {} THEN "fulfilled" ELSE "pending"]

\* img 'load' listener: resolve(img); Promise.all fulfils when its last promise does
BarrierOnLoad(b, img) ==
  IF img \notin b.waiting THEN b
  ELSE [b EXCEPT !.waiting = @ \ {img},
                 !.settled = @ \cup {img},
                 !.state = IF @ = "pending" /\ b.waiting = {img} THEN "fulfilled" ELSE @]

\* img 'error' listener: reject(img); Promise.all rejects with its first rejection
BarrierOnError(b, img) ==
  IF img \notin b.waiting THEN b
  ELSE [b EXCEPT !.waiting = @ \ {img},
                 !.settled = @ \cup {img},
                 !.state = IF @ = "pending" THEN "rejected" ELSE @]

----------------------------------------------------------------------------
(* Video library widget *)

\* a slip the exact-equality test invites: "at least N" instead of "exactly N"
AllPlayersReadyAtLeast(count, n) == count >= n

\* if (this.numberPlayersReady === this.ids.length)
AllPlayersReady(count, n) == count = n

VideoInit(page) ==
  /\ elements = page
  /\ optIds \in [Instances -> StringsUpTo(MaxIdsLen)]
  /\ \A i \in Instances \ page : optIds[i] = <<>>
  /\ loaded = FALSE
  /\ ids = [i \in Instances |-> <<>>]
  /\ hidden = [i \in Instances |-> FALSE]
  /\ numberPlayersReady = [i \in Instances |-> 0]
  /\ players = [i \in Instances |-> FALSE]
  /\ onYouTubeIframeAPIReady = 0
  /\ apiReady = FALSE
  /\ imgState \in [Images -> ImageStates]
  /\ barriers = <<>>
  /\ jobs = <<>>
  /\ readyEvents = [i \in Instances |-> 0]
  /\ signalled = [i \in Instances |-> {}]
  /\ signals = 0

\* the last element of the page in document order: each() visits them in order and
\* every initialize ends in loadYouTubeAPI, which overwrites the global callback
LastElement(page) == CHOOSE i \in page : \A j \in page : j <= i

\* window 'load' listener: new VideoLibrary(el) for each element, that is initialize
WindowLoad ==
  /\ ~loaded
  /\ jobs = <<>>
  /\ loaded' = TRUE
  /\ ids' = [i \in Instances |-> IF i \in elements THEN ParseIds(optIds[i]) ELSE ids[i]]
  /\ numberPlayersReady' = [i \in Instances |-> IF i \in elements THEN 0 ELSE numberPlayersReady[i]]
  /\ hidden' = [i \in Instances |-> IF i \in elements THEN TRUE ELSE hidden[i]]
  /\ onYouTubeIframeAPIReady' = IF elements = {} THEN onYouTubeIframeAPIReady
                                ELSE LastElement(elements)
  /\ UNCHANGED <<elements, optIds, players, apiReady, imgState, barriers, jobs,
                 readyEvents, signalled, signals>>
  /\ UNCHANGED navVars

\* the embedding API calls window.onYouTubeIframeAPIReady once: createPlayers of the
\* instance bound to it
ApiReady ==
  /\ loaded
  /\ ~apiReady
  /\ jobs = <<>>
  /\ onYouTubeIframeAPIReady # 0
  /\ apiReady' = TRUE
  /\ players' = [players EXCEPT ![onYouTubeIframeAPIReady] = TRUE]
  /\ UNCHANGED <<elements, optIds, loaded, ids, hidden, numberPlayersReady,
                 onYouTubeIframeAPIReady, imgState, barriers, jobs, readyEvents,
                 signalled, signals>>
  /\ UNCHANGED navVars

\* onPlayerReady(e) with e.target the k-th player of instance i.  The embedding API
\* decides which callbacks come and how often; the handler keeps no record of who called.
OnPlayerReady(i, k) ==
  /\ players[i]
  /\ k \in 1..Len(ids[i])
  /\ jobs = <<>>
  /\ signals < MaxSignals
  /\ signals' = signals + 1
  /\ signalled' = [signalled EXCEPT ![i] = @ \cup {k}]
  /\ numberPlayersReady' = [numberPlayersReady EXCEPT ![i] = @ + 1]
  /\ IF AllPlayersReady(numberPlayersReady[i] + 1, Len(ids[i]))
     THEN /\ barriers' = Append(barriers, NewBarrier(i))
          /\ jobs' = IF NewBarrier(i).state = "fulfilled"
                     THEN Append(jobs, Len(barriers) + 1) ELSE jobs
     ELSE UNCHANGED <<barriers, jobs>>
  /\ UNCHANGED <<elements, optIds, loaded, ids, hidden, players,
                 onYouTubeIframeAPIReady, apiReady, imgState, readyEvents>>
  /\ UNCHANGED navVars

\* the indexes of the barriers that img's event fulfils
NewlyFulfilled(img) ==
  {b \in 1..Len(barriers) :
     barriers[b].state = "pending" /\ BarrierOnLoad(barriers[b], img).state = "fulfilled"}

RECURSIVE SetToSeq(_)
SetToSeq(S) ==
  IF S = {} THEN <<>>
  ELSE LET m == CHOOSE x \in S : \A y \in S : x <= y
       IN <<m>> \o SetToSeq(S \ {m})

\* an image fires 'load'
ImageLoad(img) ==
  /\ imgState[img] = "loading"
  /\ jobs = <<>>
  /\ imgState' = [imgState EXCEPT ![img] = "loaded"]
  /\ barriers' = [b \in 1..Len(barriers) |-> BarrierOnLoad(barriers[b], img)]
  /\ jobs' = jobs \o SetToSeq(NewlyFulfilled(img))
  /\ UNCHANGED <<elements, optIds, loaded, ids, hidden, numberPlayersReady, players,
                 onYouTubeIframeAPIReady, apiReady, readyEvents, signalled, signals>>
  /\ UNCHANGED navVars

\* an image fires 'error'
ImageError(img) ==
  /\ imgState[img] = "loading"
  /\ jobs = <<>>
  /\ imgState' = [imgState EXCEPT ![img] = "broken"]
  /\ barriers' = [b \in 1..Len(barriers) |-> BarrierOnError(barriers[b], img)]
  /\ UNCHANGED <<elements, optIds, loaded, ids, hidden, numberPlayersReady, players,
                 onYouTubeIframeAPIReady, apiReady, jobs, readyEvents, signalled, signals>>
  /\ UNCHANGED navVars

\* the reaction job of onImagesLoaded().then(this.onPlayersReady.bind(this))
OnPlayersReady ==
  /\ jobs # <<>>
  /\ LET i == barriers[Head(jobs)].inst
     IN /\ hidden' = [hidden EXCEPT ![i] = FALSE]
        /\ readyEvents' = [readyEvents EXCEPT ![i] = @ + 1]
  /\ jobs' = Tail(jobs)
  /\ UNCHANGED <<elements, optIds, loaded, ids, numberPlayersReady, players,
                 onYouTubeIframeAPIReady, apiReady, imgState, barriers, signalled, signals>>
  /\ UNCHANGED navVars

----------------------------------------------------------------------------
(* Article navigation widget: values *)

\* the entity types of a collection
Types == {"categories", "sections", "articles"}
\* options.filter[type]: the default draft predicate, no own property, or a
\* function that accepts everything
FilterKinds == {"draft", "absent", "all"}
\* options.sort[type]: the name of Util.sortByPosition, or null
SortKinds == {"sortByPosition", "null"}

\* articles the collection may hold
MaxArticles == 2

CategoryIds == {1, 2}
SectionIds == {10, 11}
\* section ids no section carries
MissingSectionIds == {99}
Positions == {1, 2}
ArticleId(k) == 99 + k
ArticleIds == {ArticleId(k) : k \in 1..MaxArticles}
\* options.articleId null
NoArticleId == 0

\* JavaScript's undefined and null, and a defined value
Undefined == [kind |-> "undefined"]
Null == [kind |-> "null"]
Some(v) == [kind |-> "object", value |-> v]

Reverse(s) == [k \in 1..Len(s) |-> s[Len(s) + 1 - k]]

RemoveAt(s, i) == SubSeq(s, 1, i - 1) \o SubSeq(s, i + 1, Len(s))

defaults ==
  [collection |-> "empty",
   articleId |-> NoArticleId,
   sortOrder |-> "asc",
   filter |-> [t \in Types |-> "draft"],
   sort |-> [t \in Types |-> "sortByPosition"]]

----------------------------------------------------------------------------
(* Article navigation widget: _filterObjects, _sortObjects, _sortArticles *)

\* the predicates of options.filter
Accepts(kind, object) ==
  CASE kind = "draft" -> object.draft # TRUE
    [] kind = "all" -> TRUE
    [] OTHER -> TRUE

\* the guard of _filterObjects
FilterApplies(options, objectType) ==
  options.filter[objectType] # "absent" /\ options.sort[objectType] # "null"

\* _filterObjects: Array.prototype.filter builds a new array; otherwise the very
\* array it was given is returned (same = TRUE)
FilterObjects(options, objects, objectType) ==
  IF FilterApplies(options, objectType)
  THEN [array |-> SelectSeq(objects, LAMBDA o : Accepts(options.filter[objectType], o)),
        same |-> FALSE]
  ELSE [array |-> objects, same |-> TRUE]

\* Util.sortByPosition(a, b): negative, zero or positive
SortByPosition(a, b) == a.position - b.position

\* the comparator _sortObjects falls back to: this.sortByPosition and this.sortByName
\* are not members of the plugin, so Array.prototype.sort gets undefined and compares
\* the objects as the strings "[object Object]": all equal
DefaultCompare(a, b) == 0

\* the comparator _sortObjects ends up with
Compare(options, objectType, a, b) ==
  IF options.sort[objectType] # "null" THEN SortByPosition(a, b) ELSE DefaultCompare(a, b)

\* Array.prototype.sort is stable: x goes behind every element not greater than it
RECURSIVE InsertSorted(_, _, _, _)
InsertSorted(options, objectType, sorted, x) ==
  IF sorted = <<>> THEN <<x>>
  ELSE IF Compare(options, objectType, Head(sorted), x) <= 0
       THEN <<Head(sorted)>> \o InsertSorted(options, objectType, Tail(sorted), x)
       ELSE <<x>> \o sorted

\* _sortObjects: objects.sort(comparator), in place
RECURSIVE SortObjects(_, _, _)
SortObjects(options, objects, objectType) ==
  IF objects = <<>> THEN <<>>
  ELSE InsertSorted(options, objectType,
                    SortObjects(options, SubSeq(objects, 1, Len(objects) - 1), objectType),
                    objects[Len(objects)])

\* var i = articles.length; while (i--) { ... push ... splice ... }
RECURSIVE ScanArticles(_, _, _, _)
ScanArticles(articles, i, section, sortedArticles) ==
  IF i = 0 THEN [articles |-> articles, sortedArticles |-> sortedArticles]
  ELSE IF articles[i].section_id = section.id
       THEN ScanArticles(RemoveAt(articles, i), i - 1, section,
                         Append(sortedArticles, articles[i]))
       ELSE ScanArticles(articles, i - 1, section, sortedArticles)

\* sortObjects(sections, 'sections').forEach(function(section) { ... })
RECURSIVE EachSection(_, _, _, _)
EachSection(sections, j, category, st) ==
  IF j > Len(sections) THEN st
  ELSE EachSection(sections, j + 1, category,
         IF sections[j].category_id = category.id
         THEN ScanArticles(st.articles, Len(st.articles), sections[j], st.sortedArticles)
         ELSE st)

\* sortObjects(categories, 'categories').forEach(function(category) { ... })
RECURSIVE EachCategory(_, _, _, _)
EachCategory(categories, c, sections, st) ==
  IF c > Len(categories) THEN st
  ELSE EachCategory(categories, c + 1, sections,
                    EachSection(sections, 1, categories[c], st))

\* a slip: the list is returned as accumulated under either sortOrder
OrderResultAsAccumulated(sortOrder, sortedArticles) == sortedArticles

\* the last line of _sortArticles
OrderResult(sortOrder, sortedArticles) ==
  IF sortOrder = "desc" THEN sortedArticles ELSE Reverse(sortedArticles)

\* _sortArticles(collection): the list it returns and the collection it leaves behind
\* (reverse, sort and splice work in place on whatever array _filterObjects returned)
SortArticles(options, coll) ==
  LET fc == FilterObjects(options, coll.categories, "categories")
      fs == FilterObjects(options, coll.sections, "sections")
      fa == FilterObjects(options, coll.articles, "articles")
      categories == SortObjects(options, Reverse(fc.array), "categories")
      reversedSections == Reverse(fs.array)
      sections == SortObjects(options, reversedSections, "sections")
      articles == SortObjects(options, fa.array, "articles")
      st == EachCategory(categories, 1, sections,
                         [articles |-> articles, sortedArticles |-> <<>>])
  IN [articles |-> OrderResult(options.sortOrder, st.sortedArticles),
      collection |->
        [categories |-> IF fc.same THEN categories ELSE coll.categories,
         sections |-> IF ~fs.same THEN coll.sections
                      ELSE IF categories = <<>> THEN reversedSections ELSE sections,
         articles |-> IF fa.same THEN st.articles ELSE coll.articles]]

----------------------------------------------------------------------------
(* Article navigation widget: render and initialize *)

\* for (var i = 0; ...) if (articles[i].id === options.articleId) { index = i; break; }
\* <<>> is undefined, <<i>> the zero-based index
RECURSIVE FindIndex(_, _, _)
FindIndex(articles, articleId, i) ==
  IF i >= Len(articles) THEN <<>>
  ELSE IF articles[i + 1].id = articleId THEN <<i>>
  ELSE FindIndex(articles, articleId, i + 1)

\* articles[n] of a zero-based JavaScript array
At(articles, n) == IF n >= 0 /\ n < Len(articles) THEN Some(articles[n + 1]) ELSE Undefined

\* currentArticle: articles[index]
CurrentArticle(articles, index) ==
  IF index = <<>> THEN Undefined ELSE At(articles, index[1])

\* a slip: index - 1 > 0 loses the previous article of the second place
PreviousArticleStrict(articles, index) ==
  IF index # <<>> /\ index[1] - 1 > 0 THEN At(articles, index[1] - 1) ELSE Null

\* (index - 1 >= 0) ? articles[index - 1] : null   (undefined - 1 is NaN: no comparison holds)
PreviousArticle(articles, index) ==
  IF index # <<>> /\ index[1] - 1 >= 0 THEN At(articles, index[1] - 1) ELSE Null

\* a slip: index starts as -1 instead of undefined, so a missing article gets the
\* first article as its next one
NextArticleFromMinusOne(articles, index) ==
  LET i == IF index = <<>> THEN -1 ELSE index[1]
  IN IF i + 1 < Len(articles) THEN At(articles, i + 1) ELSE Null

\* (index + 1 < articles.length) ? articles[index + 1] : null
NextArticle(articles, index) ==
  IF index # <<>> /\ index[1] + 1 < Len(articles) THEN At(articles, index[1] + 1) ELSE Null

\* the data record of render
RenderData(articles, articleId) ==
  LET index == FindIndex(articles, articleId, 0)
  IN [currentArticle |-> CurrentArticle(articles, index),
      previousArticle |-> PreviousArticle(articles, index),
      nextArticle |-> NextArticle(articles, index)]

NoData == [currentArticle |-> Undefined, previousArticle |-> Undefined, nextArticle |-> Undefined]

\* render(collection) under the given options
Render(options) ==
  LET r == SortArticles(options, collection)
  IN /\ passed' = collection
     /\ collection' = r.collection
     /\ navData' = RenderData(r.articles, options.articleId)
     /\ navEvents' = Append(navEvents, r.articles)
     /\ navPc' = "rendered"

\* options.collection is "articles" (an object with categories, sections and articles),
\* "articlesOnly" (an object with articles alone), "empty" (the default {}) or "badjson"
\* (a string that is no valid JSON).
\* The option loop of initialize: a string that is no valid JSON is replaced by the default
ParsedOptions(options) ==
  IF options.collection = "badjson"
  THEN [options EXCEPT !.collection = defaults.collection]
  ELSE options

\* a slip: the page test inverted, so that a page that is no article page goes on
NoArticleIdResolvableOnArticlePage(options, page) ==
  options.articleId = NoArticleId /\ page.isArticlePage

\* if (!options.articleId) { if (!Util.isArticlePage()) { console.error(...); return; } }
NoArticleIdResolvable(options, page) ==
  options.articleId = NoArticleId /\ ~page.isArticlePage

\* initialize, when options.collection has an own property 'articles'
NavInitializeRender ==
  /\ navPc = "new"
  /\ ParsedOptions(navOptions).collection = "articles"
  /\ navOptions' = ParsedOptions(navOptions)
  /\ Render(ParsedOptions(navOptions))
  /\ navErrors' = navErrors + (IF navOptions.collection = "badjson" THEN 1 ELSE 0)
  /\ UNCHANGED <<navPage, navRequests>>
  /\ UNCHANGED videoVars

\* initialize, when options.collection holds articles but no categories or sections
\* array: _sortArticles calls filter or reverse on undefined and the TypeError ends
\* initialize
NavInitializeThrows ==
  /\ navPc = "new"
  /\ navOptions.collection = "articlesOnly"
  /\ navPc' = "threw"
  /\ UNCHANGED <<navOptions, navPage, collection, passed, navData, navEvents,
                 navErrors, navRequests>>
  /\ UNCHANGED videoVars

\* initialize, when no article id is given and the page is no article page
NavInitializeAbort ==
  /\ navPc = "new"
  /\ ParsedOptions(navOptions).collection = "empty"
  /\ NoArticleIdResolvable(navOptions, navPage)
  /\ navOptions' = ParsedOptions(navOptions)
  /\ navErrors' = navErrors + 1 + (IF navOptions.collection = "badjson" THEN 1 ELSE 0)
  /\ navPc' = "aborted"
  /\ UNCHANGED <<navPage, collection, passed, navData, navEvents, navRequests>>
  /\ UNCHANGED videoVars

\* initialize, when the articles are to be fetched.  options.articleId =
\* Util.getPageId() writes to the options argument of initialize; whether that object
\* is this.options, which render reads, is decided by Util.createPlugin: both outcomes
\* are kept.
NavInitializeFetch ==
  /\ navPc = "new"
  /\ ParsedOptions(navOptions).collection = "empty"
  /\ ~NoArticleIdResolvable(navOptions, navPage)
  /\ \E sameObject \in BOOLEAN :
       navOptions' = [ParsedOptions(navOptions) EXCEPT
                        !.articleId = IF @ = NoArticleId /\ sameObject
                                      THEN navPage.pageId ELSE @]
  /\ navErrors' = navErrors + (IF navOptions.collection = "badjson" THEN 1 ELSE 0)
  /\ navRequests' = navRequests + 1
  /\ navPc' = "fetching"
  /\ UNCHANGED <<navPage, collection, passed, navData, navEvents>>
  /\ UNCHANGED videoVars

\* the REST request resolves: .then(this.render.bind(this))
NavFetchResolved ==
  /\ navPc = "fetching"
  /\ Render(navOptions)
  /\ UNCHANGED <<navOptions, navPage, navErrors, navRequests>>
  /\ UNCHANGED videoVars

\* the REST request fails: the promise is rejected and nothing handles it
NavFetchRejected ==
  /\ navPc = "fetching"
  /\ navPc' = "failed"
  /\ UNCHANGED <<navOptions, navPage, collection, passed, navData, navEvents,
                 navErrors, navRequests>>
  /\ UNCHANGED videoVars

----------------------------------------------------------------------------
(* Article navigation widget: the collections and options of the model *)

CategoriesOfLen(n, positions, drafts) ==
  {[k \in 1..n |-> [id |-> k, position |-> p[k], draft |-> d[k]]] :
     p \in [1..n -> positions], d \in [1..n -> drafts]}

SectionsOfLen(n, positions, drafts) ==
  {[k \in 1..n |-> [id |-> 9 + k, category_id |-> c[k], position |-> p[k], draft |-> d[k]]] :
     c \in [1..n -> CategoryIds], p \in [1..n -> positions], d \in [1..n -> drafts]}

ArticlesOfLen(n, positions, drafts) ==
  {[k \in 1..n |-> [id |-> ArticleId(k), section_id |-> s[k], position |-> p[k], draft |-> d[k]]] :
     s \in [1..n -> SectionIds \cup MissingSectionIds], p \in [1..n -> positions],
     d \in [1..n -> drafts]}

Collections(positions, drafts) ==
  [categories : UNION {CategoriesOfLen(n, positions, drafts) : n \in 0..Cardinality(CategoryIds)},
   sections : UNION {SectionsOfLen(n, positions, drafts) : n \in 0..Cardinality(SectionIds)},
   articles : UNION {ArticlesOfLen(n, positions, drafts) : n \in 0..MaxArticles}]

\* the example collection of the documentation: one category, two sections, one
\* article in each
ExampleCollection ==
  [categories |-> <<[id |-> 1, position |-> 1, draft |-> FALSE]>>,
   sections |-> <<[id |-> 10, category_id |-> 1, position |-> 1, draft |-> FALSE],
                  [id |-> 11, category_id |-> 1, position |-> 2, draft |-> FALSE]>>,
   articles |-> <<[id |-> 100, section_id |-> 10, position |-> 1, draft |-> FALSE],
                  [id |-> 101, section_id |-> 11, position |-> 1, draft |-> FALSE]>>]

\* options that change the filter and the comparator of at most one entity type
CustomOptions ==
  {[defaults EXCEPT !.collection = "articles",
                    !.filter = [@ EXCEPT ![t] = f],
                    !.sort = [@ EXCEPT ![t] = c]] :
     t \in Types, f \in FilterKinds, c \in SortKinds}

\* a page without video library element
VideoIdle ==
  /\ VideoInit({})
  /\ \A img \in Images : imgState[img] = "loaded"

\* a page without article navigation element
NavIdle ==
  /\ navPc = "idle"
  /\ navOptions = defaults
  /\ navPage = [isArticlePage |-> FALSE, pageId |-> NoArticleId]
  /\ collection = ExampleCollection
  /\ passed = ExampleCollection
  /\ navData = NoData
  /\ navEvents = <<>>
  /\ navErrors = 0
  /\ navRequests = 0

NavStart ==
  /\ navPc = "new"
  /\ passed = collection
  /\ navData = NoData
  /\ navEvents = <<>>
  /\ navErrors = 0
  /\ navRequests = 0

\* collections without drafts in every order of positions, under the default filters
\* and comparators
NavInitOrdering ==
  /\ collection \in Collections(Positions, {FALSE})
  /\ navOptions \in {[defaults EXCEPT !.collection = "articles", !.articleId = a,
                                      !.sortOrder = o] :
                       a \in ArticleIds \cup {NoArticleId}, o \in {"asc", "desc"}}
  /\ navPage = [isArticlePage |-> TRUE, pageId |-> ArticleId(1)]
  /\ NavStart

\* collections with drafts, under every filter and comparator setting of one type
NavInitFiltering ==
  /\ collection \in Collections({1}, BOOLEAN)
  /\ navOptions \in {[o EXCEPT !.articleId = ArticleId(1)] : o \in CustomOptions}
  /\ navPage = [isArticlePage |-> TRUE, pageId |-> ArticleId(1)]
  /\ NavStart

\* the ways initialize is entered: collection given, missing or no valid JSON; article
\* id given or not; on an article page or not
NavInitEntry ==
  /\ collection = ExampleCollection
  /\ navOptions \in {[defaults EXCEPT !.collection = c, !.articleId = a, !.sortOrder = o] :
                       c \in {"articles", "articlesOnly", "empty", "badjson"},
                       a \in ArticleIds \cup {NoArticleId}, o \in {"asc", "desc"}}
  /\ navPage \in [isArticlePage : BOOLEAN, pageId : ArticleIds]
  /\ NavStart

NavInit == NavInitOrdering \/ NavInitFiltering \/ NavInitEntry

\* render passes over one collection object
MaxRenders == 2

\* render(collection) is called once more on the instance, with the collection object
\* the pass before it received
NavRenderAgain ==
  /\ navPc = "rendered"
  /\ Len(navEvents) < MaxRenders
  /\ Render(navOptions)
  /\ UNCHANGED <<navOptions, navPage, navErrors, navRequests>>
  /\ UNCHANGED videoVars

NavNext ==
  \/ NavInitializeRender
  \/ NavInitializeThrows
  \/ NavInitializeAbort
  \/ NavInitializeFetch
  \/ NavFetchResolved
  \/ NavFetchRejected

----------------------------------------------------------------------------
(* Specifications *)

Init == VideoInit({1}) /\ NavIdle

Next ==
  \/ WindowLoad
  \/ ApiReady
  \/ \E i \in Instances : \E k \in 1..(MaxIdsLen + 1) : OnPlayerReady(i, k)
  \/ \E img \in Images : ImageLoad(img)
  \/ \E img \in Images : ImageError(img)
  \/ OnPlayersReady

\* a page with one video library element
Spec == Init /\ [][Next]_vars

NavSpecInit == VideoIdle /\ NavInit

\* a page with one article navigation element
NavSpec == NavSpecInit /\ [][NavNext]_vars

NavRepeatInit == VideoIdle /\ NavInitFiltering

NavRepeatNext ==
  \/ NavInitializeRender
  \/ NavRenderAgain

\* one article navigation element whose render runs repeatedly over the collection
\* it was given
NavRepeatSpec == NavRepeatInit /\ [][NavRepeatNext]_vars

\* a page that holds the same video library element twice
PageInit ==
  /\ VideoInit(Instances)
  /\ \A i, j \in Instances : optIds[i] = optIds[j]
  /\ NavIdle

PageSpec == PageInit /\ [][Next]_vars

----------------------------------------------------------------------------
(* Properties of the video library widget *)

\* the barriers onImagesLoaded created for instance i
BarriersOf(i) == {b \in 1..Len(barriers) : barriers[b].inst = i}

\* no task can run before the queued promise jobs have run
Quiescent == jobs = <<>>

\* C1: whatever ready callbacks are delivered (more than N, repeated ones from the
\* same player), onPlayersReady runs, and 'videoLibrary:ready' is emitted, at most
\* once per instance.
C1_AtMostOneCompletion == \A i \in Instances : readyEvents[i] <= 1

\* C1 witness: an instance has completed once, has then received more callbacks
\* than it has ids, and one of its players has called twice.
C1_Witness ==
  \E i \in elements :
    /\ readyEvents[i] = 1
    /\ numberPlayersReady[i] > Len(ids[i])
    /\ Cardinality(signalled[i]) < numberPlayersReady[i]

\* C2: an instance is revealed (class 'hidden' removed) or has emitted its all-ready
\* event only when every one of its N players has signalled ready and every image
\* its image barrier awaited has settled.
C2_RevealOnlyAfterAllReady ==
  \A i \in elements :
    (loaded /\ (~hidden[i] \/ readyEvents[i] > 0)) =>
      /\ signalled[i] = 1..Len(ids[i])
      /\ \E b \in BarriersOf(i) : barriers[b].waiting = {}

\* C2, callbacks counted instead of players: the reveal comes only after N callbacks
\* and after every awaited image has fired 'load'.
C2_RevealOnlyAfterNSignals ==
  \A i \in elements :
    (loaded /\ (~hidden[i] \/ readyEvents[i] > 0)) =>
      /\ numberPlayersReady[i] >= Len(ids[i])
      /\ \E b \in BarriersOf(i) :
           barriers[b].waiting = {} /\ \A img \in barriers[b].awaited : imgState[img] = "loaded"

\* C3: once the counter has reached N and every awaited image has fired 'load' or
\* 'error', the completion fires: with the promise jobs run, it has fired.
C3_ErrorSettlesBarrier ==
  \A b \in 1..Len(barriers) :
    (barriers[b].waiting = {} /\ Quiescent) => readyEvents[barriers[b].inst] >= 1

\* C4: a widget whose ids option is the default empty string completes without any
\* ready callback: once the API is ready, no image is left to wait for and the
\* promise jobs have run, its all-ready event has been emitted.
C4_EmptyIdsCompletes ==
  \A i \in elements :
    (loaded /\ optIds[i] = <<>> /\ players[i] /\ AwaitedImages = {} /\ Quiescent) =>
      readyEvents[i] >= 1

\* C5: 0 <= numberPlayersReady <= N in every state, N the number of configured ids.
C5_CounterWithinN ==
  \A i \in Instances :
    loaded => (0 <= numberPlayersReady[i] /\ numberPlayersReady[i] <= Len(ids[i]))

\* C16: the image barrier holds no wait-handle for an image that had already finished
\* with an error (complete, zero natural width) when the images were enumerated: no
\* barrier waits on a broken image.  (A handle whose image fires 'error' later leaves
\* the waiting set with that event.)
C16_NoHandleForBrokenImage ==
  \A b \in 1..Len(barriers) :
    \A img \in barriers[b].waiting : imgState[img] # "broken"

\* C16, the consequence: a barrier that waits on a broken image is never fulfilled,
\* and its instance never completes.
C16_BrokenImageBlocksBarrier ==
  \A b \in 1..Len(barriers) :
    (\E img \in barriers[b].waiting : imgState[img] = "broken")
      => barriers[b].state # "fulfilled" /\ readyEvents[barriers[b].inst] = 0

\* C17: once the embedding API has signalled that it is loaded, every video library
\* instance of the page has had its players created.
C17_EveryInstanceGetsPlayers ==
  (loaded /\ apiReady) => \A i \in elements : players[i]

\* C17, what the code gives: the players of the last element only.
C17_OnlyLastInstanceGetsPlayers ==
  \A i \in elements : players[i] => i = LastElement(elements)

----------------------------------------------------------------------------
(* Properties of the article navigation widget *)

\* the list the last render event carried
RenderedList == navEvents[Len(navEvents)]

Ids(list) == [k \in 1..Len(list) |-> list[k].id]

\* the objects the configured predicate of a type accepts
Visible(options, objects, objectType) ==
  SelectSeq(objects, LAMBDA o : Accepts(options.filter[objectType], o))

\* ascending by position, equal positions in their given order
RECURSIVE Ascending(_)
Ascending(objects) ==
  IF objects = <<>> THEN <<>>
  ELSE LET least == CHOOSE k \in 1..Len(objects) :
                      \A j \in 1..Len(objects) :
                        \/ objects[k].position < objects[j].position
                        \/ objects[k].position = objects[j].position /\ k <= j
       IN <<objects[least]>> \o Ascending(RemoveAt(objects, least))

RECURSIVE Flatten(_)
Flatten(lists) == IF lists = <<>> THEN <<>> ELSE Head(lists) \o Flatten(Tail(lists))

\* the forward two-level group-by: categories ascending, in each its sections
\* ascending, in each its articles ascending
ForwardGroupBy(options, coll) ==
  LET categories == Ascending(Visible(options, coll.categories, "categories"))
      sections == Ascending(Visible(options, coll.sections, "sections"))
      articles == Ascending(Visible(options, coll.articles, "articles"))
      OfSection(s) == SelectSeq(articles, LAMBDA a : a.section_id = s.id)
      OfCategory(c) ==
        LET mine == SelectSeq(sections, LAMBDA s : s.category_id = c.id)
        IN Flatten([j \in 1..Len(mine) |-> OfSection(mine[j])])
  IN Flatten([k \in 1..Len(categories) |-> OfCategory(categories[k])])

AllByPosition(options) == \A t \in Types : options.sort[t] = "sortByPosition"

\* C6: with sortOrder 'asc' and the ascending-position comparators, the rendered list
\* is the forward two-level group-by of the collection.
C6_AscendingIsForwardGroupBy ==
  (navPc = "rendered" /\ navOptions.sortOrder = "asc" /\ AllByPosition(navOptions)) =>
    RenderedList = ForwardGroupBy(navOptions, passed)

\* C6, the documentation's example: it renders as [100, 101].
C6_Example ==
  (navPc = "rendered" /\ navOptions.sortOrder = "asc" /\ AllByPosition(navOptions)
     /\ passed = ExampleCollection) =>
    Ids(RenderedList) = <<100, 101>>

\* C7: the list rendered under one sortOrder is the exact reverse of the list
\* _sortArticles gives under the other sortOrder for the same collection and the same
\* filters and comparators.
C7_DescIsReverseOfAsc ==
  navPc = "rendered" =>
    LET other == [navOptions EXCEPT !.sortOrder = IF @ = "desc" THEN "asc" ELSE "desc"]
    IN RenderedList = Reverse(SortArticles(other, passed).articles)

\* C7 witness: a descending render of at least two different articles.
C7_Witness ==
  /\ navPc = "rendered"
  /\ navOptions.sortOrder = "desc"
  /\ Len(RenderedList) >= 2
  /\ RenderedList # Reverse(RenderedList)

\* the one-based places of the list whose article has the configured id
Matches == {k \in 1..Len(RenderedList) : RenderedList[k].id = navOptions.articleId}

FirstMatch == CHOOSE k \in Matches : \A j \in Matches : k <= j

\* C8: when the configured articleId is in the rendered list, first at place i, then
\* currentArticle is the element at i, previousArticle the element at i-1 (none when i
\* is the first place) and nextArticle the element at i+1 (none when i is the last).
C8_NeighboursOfCurrent ==
  (navPc = "rendered" /\ Matches # {}) =>
    /\ navData.currentArticle = Some(RenderedList[FirstMatch])
    /\ navData.previousArticle =
         IF FirstMatch = 1 THEN Null ELSE Some(RenderedList[FirstMatch - 1])
    /\ navData.nextArticle =
         IF FirstMatch = Len(RenderedList) THEN Null ELSE Some(RenderedList[FirstMatch + 1])

\* C8 witness: the list [100, 101] with current article 101: previous is 100, next none.
C8_Witness ==
  /\ navPc = "rendered"
  /\ Ids(RenderedList) = <<100, 101>>
  /\ navOptions.articleId = 101
  /\ navData.currentArticle = Some(RenderedList[2])
  /\ navData.previousArticle = Some(RenderedList[1])
  /\ navData.nextArticle = Null

\* C9: when no article of the rendered list has the configured articleId (the list of
\* an empty collection is empty), currentArticle is undefined, previousArticle and
\* nextArticle are none, and the one render event carries the whole sorted list.
C9_NoMatchRendersWithoutNeighbours ==
  (navPc = "rendered" /\ Matches = {}) =>
    /\ navData.currentArticle = Undefined
    /\ navData.previousArticle = Null
    /\ navData.nextArticle = Null
    /\ Len(navEvents) = 1
    /\ RenderedList = SortArticles(navOptions, passed).articles

\* C9 witness: a render of a non-empty list that holds no article with the
\* configured id.
C9_Witness ==
  /\ navPc = "rendered"
  /\ Matches = {}
  /\ Len(RenderedList) >= 1
  /\ navOptions.articleId # NoArticleId

\* C9 witness of the empty collection.
C9_EmptyCollectionRendered ==
  /\ navPc = "rendered"
  /\ passed.articles = <<>> /\ passed.sections = <<>> /\ passed.categories = <<>>
  /\ RenderedList = <<>>

Range(list) == {list[k] : k \in 1..Len(list)}

\* the articles the claim expects in the list: they pass the article filter, their
\* section passes the section filter, its category passes the category filter
Expected(options, coll) ==
  {a \in Range(coll.articles) :
     /\ Accepts(options.filter["articles"], a)
     /\ \E s \in Range(coll.sections) :
          /\ Accepts(options.filter["sections"], s)
          /\ s.id = a.section_id
          /\ \E c \in Range(coll.categories) :
               Accepts(options.filter["categories"], c) /\ c.id = s.category_id}

NoRepeat(list) == \A j, k \in 1..Len(list) : list[j] = list[k] => j = k

\* C10: the rendered list holds no article twice and holds exactly the articles that
\* pass the article filter and lie in a section that passes the section filter and
\* lies in a category that passes the category filter.
C10_ExactlyTheReachableArticles ==
  navPc = "rendered" =>
    NoRepeat(RenderedList) /\ Range(RenderedList) = Expected(navOptions, passed)

\* C10, where every type has a comparator: the same statement.
C10_WithComparators ==
  (navPc = "rendered" /\ \A t \in Types : navOptions.sort[t] # "null") =>
    NoRepeat(RenderedList) /\ Range(RenderedList) = Expected(navOptions, passed)

\* the draft articles of a collection that lie in a non-draft section of a non-draft
\* category
ReachableDrafts(coll) ==
  {a \in Range(coll.articles) :
     /\ a.draft = TRUE
     /\ \E sec \in Range(coll.sections) :
          /\ sec.draft # TRUE
          /\ sec.id = a.section_id
          /\ \E c \in Range(coll.categories) : c.draft # TRUE /\ c.id = sec.category_id}

AcceptEveryArticle == [defaults.filter EXCEPT !["articles"] = "all"]

\* C11: with the default filters no article with draft = true is in the rendered list;
\* with the article filter replaced by one that accepts everything, every draft article
\* of a non-draft section of a non-draft category is in the rendered list.
C11_DraftsExcludedByDefault ==
  navPc = "rendered" =>
    /\ navOptions.filter = defaults.filter =>
         \A k \in 1..Len(RenderedList) : RenderedList[k].draft # TRUE
    /\ navOptions.filter = AcceptEveryArticle =>
         ReachableDrafts(passed) \subseteq Range(RenderedList)

\* C11, where every type keeps its comparator: the same statement.
C11_WithComparators ==
  (navPc = "rendered" /\ AllByPosition(navOptions)) =>
    /\ navOptions.filter = defaults.filter =>
         \A k \in 1..Len(RenderedList) : RenderedList[k].draft # TRUE
    /\ navOptions.filter = AcceptEveryArticle =>
         ReachableDrafts(passed) \subseteq Range(RenderedList)

\* C11, the override at work: a draft article is shown.
C11_DraftShown ==
  /\ navPc = "rendered"
  /\ navOptions.filter = AcceptEveryArticle
  /\ \E k \in 1..Len(RenderedList) : RenderedList[k].draft = TRUE

\* C12: after a render pass the categories, sections and articles arrays of the
\* collection that was passed in hold the same elements in the same order as before.
C12_CollectionUnchanged ==
  navPc = "rendered" => collection = passed

\* C12, where every type has a predicate and a comparator: the same statement.
C12_UnchangedWhenEveryFilterApplies ==
  (navPc = "rendered" /\ \A t \in Types : FilterApplies(navOptions, t)) =>
    collection = passed

\* C13: every run of _sortArticles over the same collection under the same options
\* gives the same ordered list.
C13_RepeatedRunsAgree ==
  \A j, k \in 1..Len(navEvents) : navEvents[j] = navEvents[k]

\* C13, where every type has a predicate and a comparator: the same statement.
C13_AgreeWhenEveryFilterApplies ==
  (\A t \in Types : FilterApplies(navOptions, t)) =>
    \A j, k \in 1..Len(navEvents) : navEvents[j] = navEvents[k]

\* C14: without a collection of articles, without articleId option and on a page that
\* is no article page, initialize logs an error and stops: no request is issued, render
\* is not called and no render event is emitted.
C14_AbortWithoutArticleId ==
  (/\ ParsedOptions(navOptions).collection = "empty"
   /\ navOptions.articleId = NoArticleId
   /\ ~navPage.isArticlePage) =>
    /\ navRequests = 0
    /\ navEvents = <<>>
    /\ navData = NoData
    /\ navPc \in {"new", "aborted"}
    /\ navPc = "aborted" => navErrors >= 1

\* C14 witness: initialize has stopped after its error message.
C14_Witness ==
  /\ navPc = "aborted"
  /\ navOptions.articleId = NoArticleId
  /\ ~navPage.isArticlePage
  /\ navErrors >= 1
  /\ navRequests = 0

\* C15: _filterObjects applies the configured predicate of a type whatever the
\* comparator of that type is, and passes the group through when no predicate is
\* configured.
C15_FilterIndependentOfComparator ==
  navPc = "rendered" =>
    \A t \in Types :
      FilterObjects(navOptions, passed[t], t).array =
        IF navOptions.filter[t] = "absent" THEN passed[t] ELSE Visible(navOptions, passed[t], t)

\* C15, where the type has a comparator: the same statement.
C15_WithComparator ==
  navPc = "rendered" =>
    \A t \in Types :
      navOptions.sort[t] # "null" =>
        FilterObjects(navOptions, passed[t], t).array =
          IF navOptions.filter[t] = "absent" THEN passed[t] ELSE Visible(navOptions, passed[t], t)

=============================================================================
